---- MODULE Spec2Model ----
(***************************************************************************)
(* Model of the smartmeter pipeline: the telegram sources (read_serial,    *)
(* fake_serial) with the CRC validator and the field extractor, the        *)
(* dispatcher coroutine, the load hysteresis controller, and the two       *)
(* record sinks DbInflux and CSVWriter.                                    *)
(*                                                                         *)
(* Bytes are natural numbers 0..255, byte strings are sequences of bytes.  *)
(* Python's None is the model value None.                                  *)
(***************************************************************************)
EXTENDS Integers, Sequences, FiniteSets, TLC

VARIABLES
    \* ---- check_msg applied to one frame
    cm_raw,                       \* the frame handed to check_msg
    cm_body,                      \* how the frame was built (see CheckInit)
    cm_result,                    \* "pending", "True" or "False"
    \* ---- one function of the extractor applied to one input
    fn,                           \* "idle" or the name of the function
    fn_arg,                       \* its argument
    fn_out,                       \* <<>> before the call, <<result>> after it
    \* ---- telegram source
    source,                       \* "read_serial" or "fake_serial" (main.py 210-223)
    lines_read,                   \* number of lines read so far
    start_of_telegram_detected,   \* read_serial local
    telegram,                     \* read_serial / fake_serial local
    telegram_count,               \* read_serial local
    msg_q,                        \* the multiprocessing queue
    frame_no,                     \* history: number of the start marker that opened `telegram`
    starts_seen,                  \* history: number of start markers received
    enqueued,                     \* history: everything ever put on msg_q, in order
    lost,                         \* history: the frames hit by a decode error or a bad CRC
    \* ---- dispatcher
    dispatcher_pc,                \* "start", "raised"
    sink_log,                     \* history: the sink calls made, as <<sink, record>>
    \* ---- LoadManager
    load_list,                    \* self.load_list: the loads, each with its state
    manager_call,                 \* history: the last LoadManager.process call
    \* ---- one load
    now,                          \* time.monotonic(), in ticks
    is_on,                        \* self._load.value == 1
    state_start_time,             \* None or a tick
    last_call,                    \* history: the last Load.process call
    changes,                      \* history: ticks of the state changes, newest last
    \* ---- DbInflux
    upload_interval,              \* seconds, constructor argument
    influx_batch,                 \* self.batch
    last_upload_time,             \* a tick, 0 until the first upload
    influx_calls,                 \* history: the DbInflux.write calls, in order
    \* ---- CSVWriter
    write_every,                  \* constructor argument
    max_lines,                    \* constructor argument
    max_age,                      \* seconds, constructor argument
    csv_batch,                    \* self.batch
    filehandler,                  \* None or <<name>> of the open file
    lines_written,                \* self.lines_written
    create_time,                  \* a tick
    files,                        \* the directory: name -> file
    csv_calls                     \* history: the CSVWriter.write / close calls, in order

checkVars  == <<cm_raw, cm_body, cm_result, fn, fn_arg, fn_out>>
sourceVars == <<source, lines_read, start_of_telegram_detected, telegram,
                telegram_count, msg_q, frame_no, starts_seen, enqueued, lost>>
dispVars   == <<dispatcher_pc, sink_log, load_list, manager_call>>
loadVars   == <<now, is_on, state_start_time, last_call, changes>>
influxVars == <<upload_interval, influx_batch, last_upload_time, influx_calls>>
csvVars    == <<write_every, max_lines, max_age, csv_batch, filehandler,
                lines_written, create_time, files, csv_calls>>
vars       == <<checkVars, sourceVars, dispVars, loadVars, influxVars, csvVars>>

None == <<>>

----------------------------------------------------------------------------
(* Bounds of the model.                                                    *)

MaxBody   == 2      \* bytes in the body of a frame handed directly to check_msg
MaxLines  == 5      \* lines a telegram source reads
MaxTime   == 14     \* last tick of the monotonic clock
TicksPerSecond == 2 \* resolution of the monotonic clock
hold_timer == 1     \* seconds, configuration of the load

----------------------------------------------------------------------------
(* Byte strings.                                                           *)

Slice(s, from, to) ==
    \* Python s[from:to] with 0-based, clipped, non-negative indices
    LET hi == IF to > Len(s) THEN Len(s) ELSE to
    IN  IF from >= hi THEN <<>> ELSE SubSeq(s, from + 1, hi)

StartsWith(s, p) == Len(s) >= Len(p) /\ SubSeq(s, 1, Len(p)) = p

IsDigit(b)  == b \in 48..57
IsUpper(b)  == b \in 65..90
IsSpace(b)  == b \in {9, 10, 11, 12, 13, 32}

RECURSIVE LStrip(_)
LStrip(s) == IF s # <<>> /\ IsSpace(Head(s)) THEN LStrip(Tail(s)) ELSE s

RECURSIVE RStrip(_)
RStrip(s) == IF s # <<>> /\ IsSpace(s[Len(s)])
             THEN RStrip(SubSeq(s, 1, Len(s) - 1)) ELSE s

Strip(s) == RStrip(LStrip(s))

Find(s, b) ==
    \* bytes.find: 0-based index of the first b, -1 when absent
    IF \E i \in 1..Len(s) : s[i] = b
    THEN (CHOOSE i \in 1..Len(s) : s[i] = b /\ \A j \in 1..(i - 1) : s[j] # b) - 1
    ELSE -1

----------------------------------------------------------------------------
(* CRC validator: check_msg and the library calls it makes.                *)

RECURSIVE XorBits(_, _, _)
XorBits(a, b, n) ==
    \* bitwise exclusive or of the n low bits of a and b
    IF n = 0 THEN 0
    ELSE ((a + b) % 2) + 2 * XorBits(a \div 2, b \div 2, n - 1)

XorByte(c, b) ==
    \* c ^ b for a 16-bit c and a byte b
    256 * (c \div 256) + XorBits(c % 256, b, 8)

XorPoly(v) ==
    \* v ^ 0xA001 for v < 2^15: bits 15, 13 and 0 are flipped
    v + 32768
      + (IF (v \div 8192) % 2 = 1 THEN 0 - 8192 ELSE 8192)
      + (IF v % 2 = 1 THEN 0 - 1 ELSE 1)

RECURSIVE CrcShift(_, _)
CrcShift(c, n) ==
    \* n steps of the reflected shift register, polynomial 0xA001
    LET next == IF c % 2 = 1 THEN XorPoly(c \div 2) ELSE c \div 2
    IN  IF n = 0 THEN c
        ELSE IF next >= 0 THEN CrcShift(next, n - 1) ELSE 0

RECURSIVE CrcFrom(_, _)
CrcFrom(c, data) ==
    \* the register after the bytes of data, starting from c
    LET next == CrcShift(XorByte(c, Head(data)), 8)
    IN  IF data = <<>> THEN c
        ELSE IF next >= 0 THEN CrcFrom(next, Tail(data)) ELSE 0

Crc16Lha(data) == CrcFrom(0, data)

IsHexDigit(b) == IsDigit(b) \/ b \in 65..70 \/ b \in 97..102

HexVal(b) == IF IsDigit(b) THEN b - 48
             ELSE IF b \in 65..70 THEN b - 55 ELSE b - 87

ValidDigits(d) ==
    \* digits of an int() literal: hex digits, single underscores between them
    /\ d # <<>>
    /\ \A i \in 1..Len(d) : IsHexDigit(d[i]) \/ d[i] = 95
    /\ d[1] # 95 /\ d[Len(d)] # 95
    /\ \A i \in 1..(Len(d) - 1) : ~(d[i] = 95 /\ d[i + 1] = 95)

RECURSIVE DigitsValue(_, _)
DigitsValue(acc, d) ==
    IF d = <<>> THEN acc
    ELSE DigitsValue(IF Head(d) = 95 THEN acc ELSE 16 * acc + HexVal(Head(d)), Tail(d))

PyInt16(s) ==
    \* int(s, 16): [ok |-> FALSE] stands for ValueError
    LET t      == Strip(s)
        signed == t # <<>> /\ t[1] \in {43, 45}
        u      == IF signed THEN Tail(t) ELSE t
        pre    == Len(u) >= 2 /\ u[1] = 48 /\ u[2] \in {88, 120}
        v      == IF pre THEN SubSeq(u, 3, Len(u)) ELSE u
        w      == IF pre /\ v # <<>> /\ v[1] = 95 THEN Tail(v) ELSE v
    IN  IF ValidDigits(w)
        THEN [ok |-> TRUE,
              val |-> IF signed /\ t[1] = 45 THEN 0 - DigitsValue(0, w)
                      ELSE DigitsValue(0, w)]
        ELSE [ok |-> FALSE, val |-> 0]

RECURSIVE HexDigits(_)
HexDigits(n) ==
    \* lower-case hexadecimal digits of n >= 0, no leading zeros
    LET d == n % 16
        c == IF d < 10 THEN 48 + d ELSE 87 + d
    IN  IF n < 16 THEN <<c>> ELSE Append(HexDigits(n \div 16), c)

PyHex(n) ==
    \* hex(n): "0x.." or "-0x.."
    IF n < 0 THEN <<45, 48, 120>> \o HexDigits(0 - n) ELSE <<48, 120>> \o HexDigits(n)

check_msg(raw_msg) ==
    LET pos      == Find(raw_msg, 33)
        data     == Slice(raw_msg, 0, pos + 1)
        provided == PyInt16(Slice(raw_msg, pos + 1, Len(raw_msg)))
    IN  IF ~provided.ok THEN FALSE
        ELSE PyHex(Crc16Lha(data)) = PyHex(provided.val)

----------------------------------------------------------------------------
(* check_msg as a function of one frame.                                   *)

Alphabet == {10, 33, 48, 49, 65, 71}      \* "\n" "!" "0" "1" "A" "G"

SeqsUpTo(S, n) == UNION {[1..k -> S] : k \in 0..n}

Hex4(n) ==
    \* the trailer as the meter prints it: four upper-case hexadecimal digits
    LET D(k) == LET d == (n \div k) % 16 IN IF d < 10 THEN 48 + d ELSE 55 + d
    IN  <<D(4096), D(256), D(16), D(1)>>

Seal(body) == body \o <<33>> \o Hex4(Crc16Lha(body \o <<33>>)) \o <<13, 10>>

Frames ==
    {[kind |-> "raw", raw |-> f, body |-> <<>>, at |-> 0] :
        f \in SeqsUpTo(Alphabet, MaxBody + 1)}
    \cup {[kind |-> "sealed", raw |-> Seal(b), body |-> b, at |-> 0] :
        b \in SeqsUpTo(Alphabet, MaxBody)}
    \cup UNION {{[kind |-> "altered", raw |-> [Seal(b) EXCEPT ![x[1]] = x[2]],
                  body |-> b, at |-> x[1]] :
                    x \in {y \in (1..Len(b)) \X Alphabet : y[2] # b[y[1]]}} :
                        b \in SeqsUpTo(Alphabet, MaxBody)}

ApplyIdle ==
    /\ fn = "idle"
    /\ fn_arg = <<>>
    /\ fn_out = <<>>

CheckInit ==
    /\ \E f \in Frames : cm_raw = f.raw /\ cm_body = f
    /\ cm_result = "pending"
    /\ ApplyIdle

CheckMsg ==
    /\ cm_result = "pending"
    /\ cm_result' = IF check_msg(cm_raw) THEN "True" ELSE "False"
    /\ UNCHANGED <<cm_raw, cm_body, fn, fn_arg, fn_out>>

----------------------------------------------------------------------------
(* Shared status object (Borg).                                            *)

Borg_init(nargs) ==
    \* Borg.__init__(self) takes no further argument
    IF nargs = 0 THEN "ok" ELSE "TypeError"

Status_init(nargs) ==
    \* Status.__init__(self, load, meter) wants two arguments and hands both
    \* on to Borg.__init__
    IF nargs # 2 THEN "TypeError" ELSE Borg_init(nargs)

----------------------------------------------------------------------------
(* Load controller: one Load fed through Load.process.                     *)

max_power  == 2300      \* W, configuration of the load
switch_off == 100       \* W

Injected == {0, max_power - 1, max_power, max_power + 1}
Consumed == {0, switch_off, switch_off + 1}

PyBool(b) == IF b THEN "True" ELSE "False"

state_time(start, t) ==
    \* the property Load.state_time read at tick t; a start time that is None
    \* or zero is falsy
    IF start = None \/ start = <<0>> THEN None
    ELSE <<(t - start[1]) \div TicksPerSecond>>

SwitchOn_strict(on, st, injected) ==
    \* SwitchOn with the power threshold excluded
    /\ ~on
    /\ injected > max_power
    /\ ((st # None /\ st[1] > hold_timer) \/ st = None)

SwitchOn(on, st, injected) ==
    \* the condition of the first branch of Load.process
    /\ ~on
    /\ injected >= max_power
    /\ ((st # None /\ st[1] > hold_timer) \/ st = None)

SwitchOff_threshold(on, st, consumed) ==
    \* SwitchOff with the off-threshold included
    IF on /\ consumed >= switch_off
    THEN (IF st = None THEN "TypeError" ELSE PyBool(st[1] > hold_timer))
    ELSE "False"

SwitchOff_early(on, st, consumed) ==
    \* SwitchOff with a hold timer that has just been reached taken as expired
    IF on /\ consumed > switch_off
    THEN (IF st = None THEN "TypeError" ELSE PyBool(st[1] >= hold_timer))
    ELSE "False"

SwitchOff(on, st, consumed) ==
    \* the condition of the elif branch of Load.process; "TypeError" when the
    \* comparison of None with the hold timer is evaluated
    IF on /\ consumed > switch_off
    THEN (IF st = None THEN "TypeError" ELSE PyBool(st[1] > hold_timer))
    ELSE "False"

StartAfter_unset(switch, start, t) == IF switch THEN None ELSE start

StartAfter_keep(switch, start, t) == start

StartAfter(switch, start, t) ==
    \* Load.on and Load.off set the state-start time to the clock
    IF switch THEN <<t>> ELSE start

LoadInit ==
    /\ now = 1
    /\ is_on = FALSE
    /\ state_start_time = None
    /\ last_call = None
    /\ changes = <<>>

Tick ==
    \* the monotonic clock advances
    /\ now < MaxTime
    /\ now' = now + 1
    /\ UNCHANGED <<is_on, state_start_time, last_call, changes>>

MaxOpsTime == 6     \* last tick at which on and off are called from outside process

Load_on ==
    \* Load.on called from outside process; the history keeps the changes
    \* that process makes
    /\ now <= MaxOpsTime
    /\ is_on' = TRUE
    /\ state_start_time' = StartAfter(TRUE, state_start_time, now)
    /\ UNCHANGED <<now, last_call, changes>>

Load_off ==
    \* Load.off called from outside process
    /\ now <= MaxOpsTime
    /\ is_on' = FALSE
    /\ state_start_time' = StartAfter(TRUE, state_start_time, now)
    /\ UNCHANGED <<now, last_call, changes>>

Load_process ==
    \E injected \in Injected, consumed \in Consumed :
        LET st     == state_time(state_start_time, now)
            go_on  == SwitchOn(is_on, st, injected)
            go_off == IF go_on THEN "False" ELSE SwitchOff(is_on, st, consumed)
            switch == go_on \/ go_off = "True"
            \* the status is published only when the branches did not raise
            result == IF go_off = "TypeError" THEN "TypeError"
                      ELSE IF Status_init(0) # "ok" THEN "TypeError"
                      ELSE PyBool(IF switch THEN ~is_on ELSE is_on)
        IN  /\ is_on' = IF switch THEN ~is_on ELSE is_on
            /\ state_start_time' = StartAfter(switch, state_start_time, now)
            /\ changes' = IF switch THEN Append(changes, now) ELSE changes
            /\ last_call' = <<[injected |-> injected, consumed |-> consumed,
                               at |-> now, was_on |-> is_on,
                               changes_before |-> changes,
                               start_before |-> state_start_time,
                               result |-> result]>>
            /\ UNCHANGED now

----------------------------------------------------------------------------
(* Telegram framing: the two markers and the decoding of a line.           *)

START_OF_TELEGRAM(line) ==
    \* ^\/FLU\d{1}\\
    /\ Len(line) >= 6
    /\ SubSeq(line, 1, 4) = <<47, 70, 76, 85>>
    /\ IsDigit(line[5])
    /\ line[6] = 92

END_OF_TELEGRAM(line) ==
    \* ^![A-Z0-9]{4}
    /\ Len(line) >= 5
    /\ line[1] = 33
    /\ \A i \in 2..5 : IsUpper(line[i]) \/ IsDigit(line[i])

DecodesAscii(line) == \A i \in 1..Len(line) : line[i] < 128

----------------------------------------------------------------------------
(* Field extractor and timestamp codec.                                    *)

FIELDS == <<
    <<<<48, 45, 48, 58, 49, 46, 48, 46, 48>>, "timestamp", 10, 23>>,   \* 0-0:1.0.0
    <<<<49, 45, 48, 58, 49, 46, 56, 46, 49>>, "total_consumption_day", 10, 20>>,   \* 1-0:1.8.1
    <<<<49, 45, 48, 58, 49, 46, 56, 46, 50>>, "total_consumption_night", 10, 20>>,   \* 1-0:1.8.2
    <<<<49, 45, 48, 58, 50, 46, 56, 46, 49>>, "total_injection_day", 10, 20>>,   \* 1-0:2.8.1
    <<<<49, 45, 48, 58, 50, 46, 56, 46, 50>>, "total_injection_night", 10, 20>>,   \* 1-0:2.8.2
    <<<<48, 45, 48, 58, 57, 54, 46, 49, 52, 46, 48>>, "actual_tariff", 12, 16>>,   \* 0-0:96.14.0
    <<<<49, 45, 48, 58, 49, 46, 55, 46, 48>>, "actual_total_consumption", 10, 16>>,   \* 1-0:1.7.0
    <<<<49, 45, 48, 58, 50, 46, 55, 46, 48>>, "actual_total_injection", 10, 16>>,   \* 1-0:2.7.0
    <<<<49, 45, 48, 58, 50, 49, 46, 55, 46, 48>>, "actual_l1_consumption", 11, 17>>,   \* 1-0:21.7.0
    <<<<49, 45, 48, 58, 52, 49, 46, 55, 46, 48>>, "actual_l2_consumption", 11, 17>>,   \* 1-0:41.7.0
    <<<<49, 45, 48, 58, 54, 49, 46, 55, 46, 48>>, "actual_l3_consumption", 11, 17>>,   \* 1-0:61.7.0
    <<<<49, 45, 48, 58, 50, 50, 46, 55, 46, 48>>, "actual_l1_injection", 11, 17>>,   \* 1-0:22.7.0
    <<<<49, 45, 48, 58, 52, 50, 46, 55, 46, 48>>, "actual_l2_injection", 11, 17>>,   \* 1-0:42.7.0
    <<<<49, 45, 48, 58, 54, 50, 46, 55, 46, 48>>, "actual_l3_injection", 11, 17>>,   \* 1-0:62.7.0
    <<<<49, 45, 48, 58, 51, 50, 46, 55, 46, 48>>, "l1_voltage", 11, 16>>,   \* 1-0:32.7.0
    <<<<49, 45, 48, 58, 53, 50, 46, 55, 46, 48>>, "l2_voltage", 11, 16>>,   \* 1-0:52.7.0
    <<<<49, 45, 48, 58, 55, 50, 46, 55, 46, 48>>, "l3_voltage", 11, 16>>,   \* 1-0:72.7.0
    <<<<49, 45, 48, 58, 51, 49, 46, 55, 46, 48>>, "l1_current", 11, 17>>,   \* 1-0:31.7.0
    <<<<49, 45, 48, 58, 53, 49, 46, 55, 46, 48>>, "l2_current", 11, 17>>,   \* 1-0:51.7.0
    <<<<49, 45, 48, 58, 55, 49, 46, 55, 46, 48>>, "l3_current", 11, 17>>,   \* 1-0:71.7.0
    <<<<48, 45, 49, 58, 50, 52, 46, 50, 46, 51>>, "total_gas_consumption", 26, 35>>,   \* 0-1:24.2.3
    <<<<48, 45, 49, 58, 50, 52, 46, 50, 46, 51>>, "gas_timestamp", 11, 24>>   \* 0-1:24.2.3
>>

IsAllDigits(v) == v # <<>> /\ \A i \in 1..Len(v) : IsDigit(v[i])

DigitRun(v) ==
    \* length of the longest prefix of v made of digits
    IF \E i \in 1..Len(v) : ~IsDigit(v[i])
    THEN (CHOOSE i \in 1..Len(v) : ~IsDigit(v[i]) /\ \A j \in 1..(i - 1) : IsDigit(v[j])) - 1
    ELSE Len(v)

MatchesDecimal(v) ==
    \* re.match(r"\d+\.\d+", value): digits, a point, a digit, at the start of v
    LET n == DigitRun(v)
    IN  n >= 1 /\ Len(v) >= n + 2 /\ v[n + 1] = 46 /\ IsDigit(v[n + 2])

IsDecimalLiteral(v) ==
    \* float(value) accepts the text: digits, a point, digits, nothing else
    /\ MatchesDecimal(v)
    /\ IsAllDigits(SubSeq(v, DigitRun(v) + 2, Len(v)))

autoformat(value) ==
    \* the value is a str here; type "ValueError" stands for the exception
    \* float() raises on a text that only starts like a decimal number
    IF IsAllDigits(value) THEN [type |-> "int", text |-> value]
    ELSE IF MatchesDecimal(value)
         THEN (IF IsDecimalLiteral(value) THEN [type |-> "float", text |-> value]
               ELSE [type |-> "ValueError", text |-> value])
    ELSE [type |-> "str", text |-> value]

IsLineBreak(b) == b \in {10, 13}

RECURSIVE SplitLines(_, _)
SplitLines(s, from) ==
    \* str.splitlines for the line breaks "\n", "\r", "\r\n": the lines of s
    \* from position `from` on
    LET rest == {i \in from..Len(s) : IsLineBreak(s[i])}
        brk  == CHOOSE i \in rest : \A j \in rest : i <= j
        skip == IF s[brk] = 13 /\ brk < Len(s) /\ s[brk + 1] = 10 THEN 2 ELSE 1
    IN  IF from > Len(s) THEN <<>>
        ELSE IF rest = {} THEN <<SubSeq(s, from, Len(s))>>
        ELSE <<SubSeq(s, from, brk - 1)>> \o SplitLines(s, brk + skip)

ParseRaises(msg) == \E k \in DOMAIN msg : msg[k].type = "ValueError"

RECURSIVE ParseFields(_, _, _)
ParseFields(msg, line, k) ==
    \* the inner loop of parse over FIELDS, from entry k on; the loop ends
    \* where autoformat raises
    IF k > Len(FIELDS) \/ ParseRaises(msg) THEN msg
    ELSE LET f == FIELDS[k]
             v == autoformat(Slice(line, f[3], f[4]))
         IN  IF StartsWith(line, f[1])
             THEN ParseFields([x \in (DOMAIN msg) \cup {f[2]} |->
                                  IF x = f[2] THEN v ELSE msg[x]], line, k + 1)
             ELSE ParseFields(msg, line, k + 1)

RECURSIVE ParseLines(_, _)
ParseLines(msg, lines) ==
    IF lines = <<>> THEN msg
    ELSE ParseLines(ParseFields(msg, Head(lines), 1), Tail(lines))

LocalTimestamp == [type |-> "str", text |-> <<>>]   \* datetime.now().isoformat(), value abstracted

parse(raw_msg) ==
    ParseLines([x \in {"local_timestamp"} |-> LocalTimestamp],
               SplitLines(Strip(raw_msg), 1))

convert_timestamp_swapped(timestamp) ==
    \* format = "iso8601"; timestamp is None or an autoformat value
    IF timestamp = None THEN [ok |-> FALSE, text |-> <<>>]                \* TypeError
    ELSE IF timestamp[1].type # "str" THEN [ok |-> FALSE, text |-> <<>>]  \* TypeError
    ELSE LET ts == timestamp[1].text
         IN  IF ts = <<>> THEN [ok |-> FALSE, text |-> <<>>]              \* ValueError
             ELSE IF ts[Len(ts)] \notin {83, 87}
                  THEN [ok |-> FALSE, text |-> <<>>]                      \* KeyError
             ELSE [ok |-> TRUE,
                   text |-> <<50, 48>> \o Slice(ts, 0, 2) \o <<45>> \o Slice(ts, 2, 4)
                            \o <<45>> \o Slice(ts, 4, 6) \o <<84>> \o Slice(ts, 6, 8)
                            \o <<58>> \o Slice(ts, 8, 10) \o <<58>> \o Slice(ts, 10, 12)
                            \o <<43>> \o (IF ts[Len(ts)] = 83 THEN <<48, 49>> ELSE <<48, 50>>)
                            \o <<58, 48, 48>>]
convert_timestamp(timestamp) ==
    \* format = "iso8601"; timestamp is None or an autoformat value
    IF timestamp = None THEN [ok |-> FALSE, text |-> <<>>]                \* TypeError
    ELSE IF timestamp[1].type # "str" THEN [ok |-> FALSE, text |-> <<>>]  \* TypeError
    ELSE LET ts == timestamp[1].text
         IN  IF ts = <<>> THEN [ok |-> FALSE, text |-> <<>>]              \* ValueError
             ELSE IF ts[Len(ts)] \notin {83, 87}
                  THEN [ok |-> FALSE, text |-> <<>>]                      \* KeyError
             ELSE [ok |-> TRUE,
                   text |-> <<50, 48>> \o Slice(ts, 0, 2) \o <<45>> \o Slice(ts, 2, 4)
                            \o <<45>> \o Slice(ts, 4, 6) \o <<84>> \o Slice(ts, 6, 8)
                            \o <<58>> \o Slice(ts, 8, 10) \o <<58>> \o Slice(ts, 10, 12)
                            \o <<43>> \o (IF ts[Len(ts)] = 83 THEN <<48, 50>> ELSE <<48, 49>>)
                            \o <<58, 48, 48>>]

TwoDigits(iso, i) ==
    \* the value of the two-digit field at i, -1 when it is not two digits
    IF IsDigit(iso[i]) /\ IsDigit(iso[i + 1])
    THEN 10 * (iso[i] - 48) + (iso[i + 1] - 48)
    ELSE 0 - 1

HourField(iso) ==
    \* the parser splits at blanks and takes a single digit as an hour
    IF iso[12] = 32 /\ IsDigit(iso[13]) THEN iso[13] - 48 ELSE TwoDigits(iso, 12)

calculate_timestamp_drift(iso) ==
    \* TRUE when dateutil's parser accepts the text that convert_timestamp
    \* made: year, month, day, minute and second are two digits in range, the
    \* hour is in range (the value of the drift is not used)
    /\ Len(iso) = 25
    /\ TwoDigits(iso, 3) >= 0
    /\ TwoDigits(iso, 6) \in 1..12
    /\ TwoDigits(iso, 9) \in 1..31
    /\ HourField(iso) \in 0..23
    /\ TwoDigits(iso, 15) \in 0..59
    /\ TwoDigits(iso, 18) \in 0..59

Get(msg, key) == IF key \in DOMAIN msg THEN <<msg[key]>> ELSE None

----------------------------------------------------------------------------
(* Telegram sources: read_serial and fake_serial, one line per step.       *)

StartLine    == <<47, 70, 76, 85, 53, 92, 13, 10>>   \* /FLU5\
TsLine       == <<48, 45, 48, 58, 49, 46, 48, 46, 48, 40, 50, 49, 49, 48, 50, 52, 49, 57, 53, 50, 51, 53, 83, 41, 13, 10>>
             \* 0-0:1.0.0(211024195235S)
BlankHourLine == <<48, 45, 48, 58, 49, 46, 48, 46, 48, 40, 50, 49, 49, 48, 50, 52, 32, 57, 53, 50, 51, 53, 83, 41, 13, 10>>
             \* 0-0:1.0.0(211024 95235S)
LetterLine   == <<48, 45, 48, 58, 49, 46, 48, 46, 48, 40, 50, 49, 49, 48, 50, 52, 49, 57, 53, 50, 120, 120, 83, 41, 13, 10>>
             \* 0-0:1.0.0(2110241952xxS)
EmptyTsLine  == <<48, 45, 48, 58, 49, 46, 48, 46, 48, 40, 13, 10>>
             \* 0-0:1.0.0(
NoiseLine    == <<255, 10>>                          \* not ASCII
BadEnd       == <<33, 48, 48, 48, 48, 13, 10>>                \* !0000
MalformedEnd == <<33, 71, 71, 71, 71, 13, 10>>                \* !GGGG

GoodEnd(frame) ==
    \* the end line the meter sends for the frame it has sent so far
    <<33>> \o Hex4(Crc16Lha(frame \o <<33>>)) \o <<13, 10>>

SerialLines ==
    {StartLine, TsLine, BlankHourLine, LetterLine, EmptyTsLine, NoiseLine,
     BadEnd, MalformedEnd}
    \cup (IF start_of_telegram_detected THEN {GoodEnd(telegram)} ELSE {})

UniversalNewlines(line) ==
    \* a file opened in text mode hands out "\r\n" as "\n"
    LET NotCr(b) == b # 13 IN SelectSeq(line, NotCr)

FileLines ==
    {UniversalNewlines(line) :
        line \in {StartLine, TsLine, BadEnd, MalformedEnd, GoodEnd(telegram)}}

SourceInit ==
    /\ source \in {"read_serial", "fake_serial"}
    /\ lines_read = 0
    /\ start_of_telegram_detected = FALSE
    /\ telegram = <<>>
    /\ telegram_count = 0
    /\ msg_q = <<>>
    /\ frame_no = 0
    /\ starts_seen = 0
    /\ enqueued = <<>>
    /\ lost = {}

Validated_any(frame) ==
    frame = frame

Validated(frame) ==
    \* read_serial: the test that guards parse and put
    check_msg(frame)

Extracted(frame) ==
    \* read_serial: what follows a passed check; ok is FALSE when parse, the
    \* timestamp conversion or the drift calculation raises
    LET queue_data == parse(frame)
        iso        == convert_timestamp(Get(queue_data, "timestamp"))
    IN  [ok   |-> /\ ~ParseRaises(queue_data)
                  /\ iso.ok
                  /\ calculate_timestamp_drift(iso.text),
         data |-> queue_data]

Accumulate(detected, frame, line) ==
    \* read_serial: the frame after one decodable line
    LET started == START_OF_TELEGRAM(line)
        base    == IF started THEN <<>> ELSE frame
    IN  IF started \/ detected THEN base \o line ELSE base

SerialException ==
    \* readline raises: the frame in progress is given up
    /\ source = "read_serial"
    /\ lines_read < MaxLines
    /\ lines_read' = lines_read + 1
    /\ start_of_telegram_detected' = FALSE
    /\ UNCHANGED <<source, telegram, telegram_count, msg_q, frame_no,
                   starts_seen, enqueued, lost>>

read_serial ==
    \* one pass through the body of the while loop
    /\ source = "read_serial"
    /\ lines_read < MaxLines
    /\ lines_read' = lines_read + 1
    /\ \E line \in SerialLines :
        IF ~DecodesAscii(line)
        THEN \* UnicodeDecodeError
             /\ start_of_telegram_detected' = FALSE
             /\ lost' = IF start_of_telegram_detected
                        THEN lost \cup {frame_no} ELSE lost
             /\ UNCHANGED <<telegram, telegram_count, msg_q, frame_no,
                            starts_seen, enqueued>>
        ELSE LET started == START_OF_TELEGRAM(line)
                 ended   == END_OF_TELEGRAM(line)
                 frame   == Accumulate(start_of_telegram_detected, telegram, line)
                 no      == IF started THEN starts_seen + 1 ELSE frame_no
                 record  == Extracted(frame)
                 put     == ended /\ Validated(frame) /\ record.ok
                 item    == [data |-> record.data, frame |-> no, raw |-> frame,
                             checked |-> "True"]
             IN  /\ telegram' = frame
                 /\ frame_no' = no
                 /\ starts_seen' = IF started THEN starts_seen + 1 ELSE starts_seen
                 /\ start_of_telegram_detected' =
                        IF ended THEN FALSE
                        ELSE (started \/ start_of_telegram_detected)
                 /\ telegram_count' = IF ended THEN telegram_count + 1
                                      ELSE telegram_count
                 /\ msg_q' = IF put THEN Append(msg_q, item) ELSE msg_q
                 /\ enqueued' = IF put THEN Append(enqueued, item) ELSE enqueued
                 /\ lost' = IF ended /\ (started \/ start_of_telegram_detected)
                                  /\ ~check_msg(frame)
                            THEN lost \cup {no} ELSE lost
    /\ UNCHANGED source

fake_serial ==
    \* one line of the replayed file
    /\ source = "fake_serial"
    /\ lines_read < MaxLines
    /\ lines_read' = lines_read + 1
    /\ \E line \in FileLines :
        LET started    == START_OF_TELEGRAM(line)
            frame      == IF started THEN line ELSE telegram \o line
            no         == IF started THEN starts_seen + 1 ELSE frame_no
            queue_data == parse(frame)
            put        == END_OF_TELEGRAM(line)
            item       == [data |-> queue_data, frame |-> no, raw |-> frame,
                           checked |-> "not called"]
        IN  /\ telegram' = frame
            /\ frame_no' = no
            /\ starts_seen' = IF started THEN starts_seen + 1 ELSE starts_seen
            \* an exception of parse ends the process
            /\ source' = IF put /\ ParseRaises(queue_data) THEN "ended" ELSE source
            /\ msg_q' = IF put /\ ~ParseRaises(queue_data)
                        THEN Append(msg_q, item) ELSE msg_q
            /\ enqueued' = IF put /\ ~ParseRaises(queue_data)
                           THEN Append(enqueued, item) ELSE enqueued
    /\ UNCHANGED <<start_of_telegram_detected, telegram_count, lost>>

----------------------------------------------------------------------------
(* Dispatcher coroutine.                                                   *)

Sinks == <<"influx", "csv_writer", "load_manager">>

NumLoads == 2       \* enabled load sections of the configuration

ManagerInit ==
    \* main.py 258-260: one Load per enabled section, each off and with no
    \* state-start time
    /\ load_list = [k \in 1..NumLoads |-> [is_on |-> FALSE, state_start_time |-> None]]
    /\ manager_call = None

DispatcherInit ==
    /\ dispatcher_pc = "start"
    /\ sink_log = <<>>
    /\ ManagerInit

dispatcher ==
    \* The coroutine builds the shared status before it enters its loop.  The
    \* constructor call raises outside the try block, which ends the
    \* coroutine: the loop is never entered, the queue is never read and no
    \* sink is called.
    /\ dispatcher_pc = "start"
    /\ dispatcher_pc' = IF Status_init(0) = "ok" THEN "loop" ELSE "raised"
    /\ UNCHANGED <<sink_log, load_list, manager_call>>

----------------------------------------------------------------------------
(* Records handed to the sinks: what parse makes of a telegram.            *)

MaxWrites == 3      \* calls of DbInflux.write
MaxCalls == 4       \* calls of CSVWriter.write and CSVWriter.close
MaxSinkTime == 4    \* last tick of the clock while a sink is fed
UploadInterval == 1 \* seconds, the non-zero upload interval of DbInflux

PowerLine == <<49, 45, 48, 58, 49, 46, 55, 46, 48, 40, 48, 48, 46, 49, 50, 51, 42, 107, 87, 41, 13, 10>>
          \* 1-0:1.7.0(00.123*kW)
GasLine   == <<48, 45, 49, 58, 50, 52, 46, 50, 46, 51, 40, 50, 49, 49, 48, 50, 52, 49, 57, 53, 48, 48, 48, 83, 41, 40, 48, 48, 49, 50, 51, 46, 52, 53, 54, 42, 109, 51, 41, 13, 10>>
          \* 0-1:24.2.3(211024195000S)(00123.456*m3)

Digit2(n) == <<48 + (n \div 10), 48 + (n % 10)>>

Telegram(n, gas) ==
    \* the n-th telegram of a meter, one second after the one before it; a
    \* meter without a gas meter attached sends no 0-1:24.2.3 line
    SubSeq(TsLine, 1, 20) \o Digit2(n) \o SubSeq(TsLine, 23, 26)
        \o PowerLine \o (IF gas THEN GasLine ELSE <<>>)

Records ==
    \* what parse makes of the telegrams
    [n \in 1..(MaxWrites + MaxCalls), gas \in BOOLEAN |-> parse(Telegram(n, gas))]

Record(n, gas) == Records[n, gas]

SinkTick ==
    \* the clock advances between two calls of a sink
    now < MaxSinkTime /\ Tick

----------------------------------------------------------------------------
(* DbInflux: the batching time-series writer.                              *)

convert_timestamp_default(timestamp) ==
    \* format = None; timestamp is None or an autoformat value
    IF timestamp = None THEN [ok |-> FALSE, text |-> <<>>]                \* TypeError
    ELSE IF timestamp[1].type # "str" THEN [ok |-> FALSE, text |-> <<>>]  \* TypeError
    ELSE LET ts == timestamp[1].text
         IN  IF ts = <<>> THEN [ok |-> FALSE, text |-> <<>>]              \* ValueError
             ELSE IF ts[Len(ts)] \notin {83, 87}
                  THEN [ok |-> FALSE, text |-> <<>>]                      \* KeyError
             ELSE [ok |-> TRUE,
                   text |-> <<50, 48>> \o Slice(ts, 0, 2) \o <<45>> \o Slice(ts, 2, 4)
                            \o <<45>> \o Slice(ts, 4, 6) \o <<32>> \o Slice(ts, 6, 8)
                            \o <<58>> \o Slice(ts, 8, 10) \o <<58>> \o Slice(ts, 10, 12)
                            \o (IF ts[Len(ts)] = 83 THEN <<32, 67, 69, 83, 84>>
                                ELSE <<32, 67, 69, 84>>)]

GetOr(msg, key, default) == IF key \in DOMAIN msg THEN <<msg[key]>> ELSE <<default>>

EmptyStr == [type |-> "str", text |-> <<>>]

InKey(word, key) ==
    \* Python `word in key` for the keys a record can have
    \/ word = "timestamp" /\ key \in {"timestamp", "gas_timestamp", "local_timestamp"}
    \/ word = "gas" /\ key \in {"gas_timestamp", "total_gas_consumption"}

craft_json(data) ==
    \* ok is FALSE when one of the timestamp conversions raises
    LET e_time == convert_timestamp_default(GetOr(data, "timestamp", EmptyStr))
        g_time == convert_timestamp_default(GetOr(data, "gas_timestamp", EmptyStr))
        e_keys == {key \in DOMAIN data : ~InKey("timestamp", key) /\ ~InKey("gas", key)}
        g_keys == {key \in DOMAIN data : ~InKey("timestamp", key) /\ InKey("gas", key)}
        load_on == GetOr(data, "load_status", [type |-> "int", text |-> <<48>>])[1]
    IN  [ok |-> e_time.ok /\ g_time.ok,
         points |->
             << [measurement |-> "electricity", time |-> e_time.text,
                 fields |-> [key \in e_keys |-> data[key]]],
                [measurement |-> "gas", time |-> g_time.text,
                 fields |-> [key \in g_keys |-> data[key]]],
                [measurement |-> "load", time |-> e_time.text,
                 fields |-> [key \in {"load_on"} |-> load_on]] >>]

Buffers(t, last, interval, batch) ==
    \* the condition under which DbInflux.write only buffers
    t - last < interval * TicksPerSecond \/ Len(batch) = 0

Upload_reset_first(batch, last, t, ok) ==
    [batch |-> <<>>, last |-> t, sent |-> IF ok THEN <<batch>> ELSE None]

Upload(batch, last, t, ok) ==
    \* the network write and what follows it; ok is FALSE when the client or
    \* the write raises
    IF ok THEN [batch |-> <<>>, last |-> t, sent |-> <<batch>>]
    ELSE [batch |-> batch, last |-> last, sent |-> None]

InfluxIdle ==
    /\ upload_interval = 0
    /\ influx_batch = <<>>
    /\ last_upload_time = 0
    /\ influx_calls = <<>>

InfluxInit ==
    /\ upload_interval \in {0, UploadInterval}
    /\ influx_batch = <<>>
    /\ last_upload_time = 0
    /\ influx_calls = <<>>

DbInflux_write ==
    /\ Len(influx_calls) < MaxWrites
    /\ \E gas \in BOOLEAN, ok \in BOOLEAN :
        LET data    == Record(Len(influx_calls) + 1, gas)
            buffers == Buffers(now, last_upload_time, upload_interval, influx_batch)
            crafted == craft_json(data)
            up      == Upload(influx_batch, last_upload_time, now, ok)
            outcome == IF buffers
                       THEN (IF crafted.ok THEN "buffered" ELSE "ValueError")
                       ELSE (IF ok THEN "uploaded" ELSE "write_raised")
            batch_after == IF buffers
                           THEN (IF crafted.ok
                                 THEN Append(influx_batch, crafted.points)
                                 ELSE influx_batch)
                           ELSE up.batch
            last_after  == IF buffers THEN last_upload_time ELSE up.last
        IN  /\ influx_batch' = batch_after
            /\ last_upload_time' = last_after
            /\ influx_calls' = Append(influx_calls,
                   [at |-> now, data |-> data, outcome |-> outcome,
                    batch_before |-> influx_batch, batch_after |-> batch_after,
                    last_before |-> last_upload_time, last_after |-> last_after,
                    sent |-> IF buffers THEN None ELSE up.sent])
    /\ UNCHANGED upload_interval

----------------------------------------------------------------------------
(* CSVWriter: the rotating file writer.  A file name is the second of its  *)
(* creation plus the flag that says whether it carries WIP_PREFIX.  The    *)
(* writer's fields and the directory are passed around as one record w.    *)

MaxWriteEvery == 2  \* largest write_every
MaxMaxLines == 2    \* largest max_lines

LongAge == MaxTime  \* seconds, a max_age that no file of the model reaches

WipName(stamp)   == [wip |-> TRUE, stamp |-> stamp]
FinalName(stamp) == [wip |-> FALSE, stamp |-> stamp]

Named(wip) == {name \in DOMAIN files : name.wip = wip}

Put(dir, name, file) ==
    [x \in DOMAIN dir \cup {name} |-> IF x = name THEN file ELSE dir[x]]

Remove(dir, name) == [x \in DOMAIN dir \ {name} |-> dir[x]]

Writer ==
    [batch |-> csv_batch, fh |-> filehandler, lines |-> lines_written,
     created |-> create_time, dir |-> files, t |-> now, error |-> "ok"]

generate_filename_at_once(t, dir) ==
    [stamp |-> t \div TicksPerSecond, t |-> t]

RECURSIVE generate_filename(_, _)
generate_filename(t, dir) ==
    \* the name for the second of the clock, after as many sleeps of one
    \* second as the existing final names demand
    LET stamp == t \div TicksPerSecond
    IN  IF FinalName(stamp) \notin DOMAIN dir
        THEN [stamp |-> stamp, t |-> t]
        ELSE generate_filename(t + TicksPerSecond, dir)

open(w) ==
    IF w.fh # None THEN w
    ELSE LET g == generate_filename(w.t, w.dir)
         IN  [w EXCEPT !.fh = <<WipName(g.stamp)>>,
                       !.dir = Put(w.dir, WipName(g.stamp),
                                   [rows |-> <<>>, open |-> TRUE]),
                       !.lines = 0, !.created = g.t, !.t = g.t]

Promote_open(w) ==
    LET name == w.fh[1]
        rest == Remove(w.dir, name)
    IN  IF w.lines = 0 THEN [w EXCEPT !.fh = None, !.dir = rest]
        ELSE [w EXCEPT !.fh = None,
                       !.dir = Put(rest, FinalName(name.stamp), w.dir[name])]

Promote(w) ==
    \* lines 100-115 of close: close the handle, then unlink or rename
    LET name   == w.fh[1]
        closed == [w.dir[name] EXCEPT !.open = FALSE]
        rest   == Remove(w.dir, name)
    IN  IF w.lines = 0 THEN [w EXCEPT !.fh = None, !.dir = rest]
        ELSE [w EXCEPT !.fh = None,
                       !.dir = Put(rest, FinalName(name.stamp), closed)]

Rotates_late(w) ==
    max_age * TicksPerSecond + w.created <= w.t \/ w.lines > max_lines

Rotates_by_lines(w) == w.lines = max_lines

Rotates(w) ==
    max_age * TicksPerSecond + w.created <= w.t \/ w.lines = max_lines

RECURSIVE WriteRows(_)
WriteRows(w) ==
    \* the while loop of write: pop, write the row, count it, and on a
    \* rotation close the file and leave the loop
    IF w.batch = <<>> THEN w
    ELSE LET name == w.fh[1]
             w1 == [w EXCEPT !.batch = SubSeq(w.batch, 1, Len(w.batch) - 1),
                             !.dir[name].rows = Append(@, w.batch[Len(w.batch)]),
                             !.lines = @ + 1]
         IN  IF Rotates(w1) THEN Promote(w1) ELSE WriteRows(w1)

Converted(tg) ==
    \* lines 131-137 of write, done on the caller's dict; ok is FALSE when a
    \* key is missing or a conversion raises, and telegram is the dict as
    \* the call leaves it
    LET t1 == [k \in DOMAIN tg \ {"local_timestamp"} |-> tg[k]]
        ts == convert_timestamp(Get(t1, "timestamp"))
        t2 == [t1 EXCEPT !["timestamp"] = [type |-> "str", text |-> ts.text]]
        gs == convert_timestamp(Get(t2, "gas_timestamp"))
        t3 == [t2 EXCEPT !["gas_timestamp"] = [type |-> "str", text |-> gs.text]]
    IN  IF "local_timestamp" \notin DOMAIN tg THEN [ok |-> FALSE, telegram |-> tg]
        ELSE IF ~ts.ok THEN [ok |-> FALSE, telegram |-> t1]
        ELSE IF ~gs.ok THEN [ok |-> FALSE, telegram |-> t2]
        ELSE [ok |-> TRUE, telegram |-> t3]

write(w, flush) ==
    \* write from line 141 on
    IF Len(w.batch) < write_every /\ ~flush THEN w
    ELSE WriteRows(open(w))

close(w, flush) ==
    \* AttributeError: self.filehandler is None at line 92, or at line 100
    \* after the nested write has rotated the file
    IF w.fh = None THEN [w EXCEPT !.error = "AttributeError"]
    ELSE LET w1 == IF flush /\ Len(w.batch) > 0 THEN write(w, TRUE) ELSE w
         IN  IF w1.fh = None THEN [w1 EXCEPT !.error = "AttributeError"]
             ELSE Promote(w1)

CsvIdle ==
    /\ write_every = 1
    /\ max_lines = 1
    /\ max_age = 1
    /\ csv_batch = <<>>
    /\ filehandler = None
    /\ lines_written = 0
    /\ create_time = 0
    /\ files = <<>>
    /\ csv_calls = <<>>

CsvInit ==
    /\ write_every \in 1..MaxWriteEvery
    /\ max_lines \in 1..MaxMaxLines
    /\ max_age \in {1, LongAge}
    /\ csv_batch = <<>>
    /\ filehandler = None
    /\ lines_written = 0
    /\ create_time = 0
    /\ files = <<>>
    /\ csv_calls = <<>>

Leaves(w, call) ==
    \* the state a call leaves behind, and its entry in the history
    /\ csv_batch' = w.batch
    /\ filehandler' = w.fh
    /\ lines_written' = w.lines
    /\ create_time' = w.created
    /\ files' = w.dir
    /\ now' = w.t
    /\ csv_calls' = Append(csv_calls, call @@ [slept |-> w.t - now])
    /\ UNCHANGED <<write_every, max_lines, max_age>>

CSVWriter_write ==
    /\ Len(csv_calls) < MaxCalls
    /\ \E gas \in BOOLEAN :
        LET tg   == Record(Len(csv_calls) + 1, gas)
            flush == FALSE      \* main.py 147: write(data)
            conv == Converted(tg)
            w0   == [Writer EXCEPT !.batch = Append(@, conv.telegram)]
            w    == IF conv.ok THEN write(w0, flush)
                    ELSE [Writer EXCEPT !.error = "KeyError"]
        IN  Leaves(w, [op |-> "write", flush |-> flush,
                       passed |-> <<tg>>, left |-> <<conv.telegram>>,
                       outcome |-> w.error, batch_before |-> csv_batch,
                       flushed |-> conv.ok /\ (Len(w0.batch) >= write_every \/ flush)])

CSVWriter_flush ==
    \* write(flush=True): no telegram, the threshold is not looked at
    /\ Len(csv_calls) < MaxCalls
    /\ LET w == write(Writer, TRUE)
       IN  Leaves(w, [op |-> "flush", flush |-> TRUE,
                      passed |-> None, left |-> None,
                      outcome |-> w.error, batch_before |-> csv_batch,
                      flushed |-> TRUE])

CSVWriter_close ==
    /\ Len(csv_calls) < MaxCalls
    /\ \E flush \in BOOLEAN :
        LET w == close(Writer, flush)
        IN  Leaves(w, [op |-> "close", flush |-> flush,
                       passed |-> None, left |-> None,
                       outcome |-> w.error, batch_before |-> csv_batch,
                       flushed |-> flush /\ filehandler # None /\ Len(csv_batch) > 0])

----------------------------------------------------------------------------
(* The functions of the extractor, each applied to one input.              *)

MaxText       == 4      \* characters of a text handed to autoformat
MaxFrameLines == 3      \* lines of a frame handed to parse

Str(text) == [type |-> "str", text |-> text]

autoformat_typed(value) ==
    \* autoformat for a value of any of the three types: the first two tests
    \* are for a str, a number is returned as it is
    IF value.type = "str" THEN autoformat(value.text) ELSE value

TextAlphabet == {46, 49, 97}      \* "." "1" "a"

Texts ==
    {Str(t) : t \in SeqsUpTo(TextAlphabet, MaxText)}
    \cup {[type |-> "int", text |-> <<49>>], [type |-> "float", text |-> <<49, 46, 49>>]}

DateDigits == {<<50, 49>>, <<49, 48>>, <<50, 52>>}      \* "21" "10" "24"
TimeDigits == {<<49, 57>>, <<53, 50>>, <<51, 53>>}      \* "19" "52" "35"

Timestamps ==
    \* meter timestamps with either flag, and texts that are none
    {yy \o mm \o dd \o hh \o mi \o <<51, 53>> \o flag :
        yy \in DateDigits, mm \in {<<49, 48>>}, dd \in DateDigits,
        hh \in TimeDigits, mi \in TimeDigits, flag \in {<<83>>, <<87>>}}
    \cup {<<>>, <<83>>, <<50, 49, 49, 48, 50, 52, 49, 57, 53, 50, 51, 53>>,
          <<50, 49, 49, 48, 50, 52, 49, 57, 53, 50, 51, 53, 88>>}

UnknownLine == <<48, 45, 48, 58, 57, 54, 46, 49, 46, 49, 40, 120, 41, 13, 10>>
            \* 0-0:96.1.1(x)
BrokenPowerLine == <<49, 45, 48, 58, 49, 46, 55, 46, 48, 40, 48, 48, 46, 49, 120, 51, 42, 107, 87, 41, 13, 10>>
            \* 1-0:1.7.0(00.1x3*kW)
LaterTsLine == SubSeq(TsLine, 1, 20) \o <<51, 54>> \o SubSeq(TsLine, 23, 26)
            \* 0-0:1.0.0(211024195236S)

FrameLines == {TsLine, LaterTsLine, PowerLine, GasLine, UnknownLine, BrokenPowerLine}

RECURSIVE Flatten(_)
Flatten(lines) == IF lines = <<>> THEN <<>> ELSE Head(lines) \o Flatten(Tail(lines))

ParseFrames == {Flatten(lines) : lines \in SeqsUpTo(FrameLines, MaxFrameLines)}

ApplyInit ==
    /\ cm_raw = <<>>
    /\ cm_body = [kind |-> "raw", raw |-> <<>>, body |-> <<>>, at |-> 0]
    /\ cm_result = "pending"
    /\ fn_out = <<>>
    /\ \/ fn = "convert_timestamp" /\ fn_arg \in Timestamps
       \/ fn = "autoformat" /\ fn_arg \in Texts
       \/ fn = "parse" /\ fn_arg \in ParseFrames
       \/ fn = "craft_json"
            /\ fn_arg \in {Record(n, gas) : n \in 1..(MaxWrites + MaxCalls), gas \in BOOLEAN}

Apply(name, result) ==
    /\ fn = name
    /\ fn_out = <<>>
    /\ fn_out' = <<result>>
    /\ UNCHANGED <<cm_raw, cm_body, cm_result, fn, fn_arg>>

Apply_convert_timestamp == Apply("convert_timestamp", convert_timestamp(<<Str(fn_arg)>>))

Apply_autoformat == Apply("autoformat", autoformat_typed(fn_arg))

Apply_parse == Apply("parse", parse(fn_arg))

Apply_craft_json == Apply("craft_json", craft_json(fn_arg))

----------------------------------------------------------------------------
(* CSVWriter fed without end: records keep arriving, and the uploader      *)
(* (csv_uploader.py) takes the promoted files out of the directory.  The   *)
(* call history is not kept here, and a record's number is free again once *)
(* the record is in no batch and in no file.                               *)

Rows ==
    \* the rows CSVWriter.write makes of the records with both timestamps
    [n \in 1..(MaxWrites + MaxCalls) |-> Converted(Record(n, TRUE)).telegram]

InBatch(n) == \E k \in 1..Len(csv_batch) : csv_batch[k] = Rows[n]

InFile(n) ==
    \E name \in DOMAIN files :
        \E k \in 1..Len(files[name].rows) : files[name].rows[k] = Rows[n]

FreeNumbers == {n \in 1..MaxCalls : ~InBatch(n) /\ ~InFile(n)}

CSVWriter_write_next ==
    \* write(data) with the next record of the meter
    /\ FreeNumbers # {}
    /\ \E n \in {x \in FreeNumbers : \A y \in FreeNumbers : x <= y} :
       \E w \in {write([Writer EXCEPT !.batch = Append(@, Rows[n])], FALSE)} :
           /\ w.t <= MaxSinkTime
           /\ csv_batch' = w.batch
           /\ filehandler' = w.fh
           /\ lines_written' = w.lines
           /\ create_time' = w.created
           /\ files' = w.dir
           /\ now' = w.t
    /\ UNCHANGED <<write_every, max_lines, max_age, csv_calls>>

csv_uploader ==
    \* one run of the uploader: the promoted files it has copied to the
    \* bucket are unlinked, a file whose copy fails stays
    /\ \E gone \in (SUBSET Named(FALSE)) \ {{}} :
           files' = [name \in DOMAIN files \ gone |-> files[name]]
    /\ UNCHANGED <<write_every, max_lines, max_age, csv_batch, filehandler,
                   lines_written, create_time, csv_calls>>

----------------------------------------------------------------------------
(* LoadManager: the loads of the configuration fed with one record.        *)

Kilowatts == {<<48, 48, 46, 48, 48, 48>>, <<48, 48, 46, 49, 48, 48>>,
              <<48, 48, 46, 49, 48, 49>>, <<48, 50, 46, 50, 57, 57>>,
              <<48, 50, 46, 51, 48, 48>>, <<48, 50, 46, 51, 48, 49>>}
    \* 00.000 00.100 00.101 02.299 02.300 02.301

PowerRecords ==
    \* records with and without the two power fields
    {[key \in keys |-> [type |-> "float", text |-> kw[key]]] :
        <<keys, kw>> \in
            UNION {{<<keys, kw>> : kw \in [keys -> Kilowatts]} :
                   keys \in SUBSET {"actual_total_injection", "actual_total_consumption"}}}

Watts(data, key) ==
    \* data.get(key, 0) * 1000 for a float read from DD.DDD; the product is
    \* the whole number of watts for the values of Kilowatts
    IF key \notin DOMAIN data THEN 0
    ELSE LET t == data[key].text
         IN  (10 * (t[1] - 48) + (t[2] - 48)) * 1000
                 + 100 * (t[4] - 48) + 10 * (t[5] - 48) + (t[6] - 48)

Evaluate(load, injected, consumed, t) ==
    \* Load.process on one load of the list: the load as the call leaves it
    \* and the outcome of the call
    LET st     == state_time(load.state_start_time, t)
        go_on  == SwitchOn(load.is_on, st, injected)
        go_off == IF go_on THEN "False" ELSE SwitchOff(load.is_on, st, consumed)
        switch == go_on \/ go_off = "True"
        after  == [is_on |-> IF switch THEN ~load.is_on ELSE load.is_on,
                   state_start_time |-> StartAfter(switch, load.state_start_time, t)]
    IN  [load |-> after,
         outcome |-> IF go_off = "TypeError" THEN "TypeError"
                     ELSE IF Status_init(0) # "ok" THEN "TypeError"
                     ELSE PyBool(after.is_on)]

RECURSIVE ProcessLoads(_, _, _, _)
ProcessLoads(m, k, data, t) ==
    \* the for loop of LoadManager.process from load k on; an exception of
    \* Load.process ends the loop and the call
    IF k > Len(m.loads) THEN m
    ELSE LET injected == Watts(data, "actual_total_injection")
             consumed == Watts(data, "actual_total_consumption")
             e        == Evaluate(m.loads[k], injected, consumed, t)
             m1       == [loads |-> [m.loads EXCEPT ![k] = e.load],
                          evaluated |-> Append(m.evaluated,
                                               [load |-> k, injected |-> injected,
                                                consumed |-> consumed]),
                          outcome |-> IF e.outcome = "TypeError" THEN "TypeError"
                                      ELSE "None"]
         IN  IF m1.outcome = "TypeError" THEN m1 ELSE ProcessLoads(m1, k + 1, data, t)

LoadManager_process ==
    /\ \E data \in PowerRecords :
        \E m \in {ProcessLoads([loads |-> load_list, evaluated |-> <<>>,
                                outcome |-> "None"], 1, data, now)} :
            /\ load_list' = m.loads
            /\ manager_call' = <<[data |-> data, at |-> now, loads_before |-> load_list,
                                  evaluated |-> m.evaluated, outcome |-> m.outcome]>>
    /\ UNCHANGED <<dispatcher_pc, sink_log>>

----------------------------------------------------------------------------
(* Specifications.                                                         *)

CheckIdle ==
    /\ cm_raw = <<>>
    /\ cm_body = [kind |-> "raw", raw |-> <<>>, body |-> <<>>, at |-> 0]
    /\ cm_result = "pending"
    /\ ApplyIdle

SourceIdle ==
    /\ source = "ended"
    /\ lines_read = 0
    /\ start_of_telegram_detected = FALSE
    /\ telegram = <<>>
    /\ telegram_count = 0
    /\ msg_q = <<>>
    /\ frame_no = 0
    /\ starts_seen = 0
    /\ enqueued = <<>>
    /\ lost = {}

\* the pipeline: a telegram source and the dispatcher
Init ==
    CheckIdle /\ SourceInit /\ DispatcherInit /\ LoadInit /\ InfluxIdle /\ CsvIdle

Next ==
    \/ SerialException /\ UNCHANGED <<checkVars, dispVars, loadVars, influxVars, csvVars>>
    \/ read_serial /\ UNCHANGED <<checkVars, dispVars, loadVars, influxVars, csvVars>>
    \/ fake_serial /\ UNCHANGED <<checkVars, dispVars, loadVars, influxVars, csvVars>>
    \/ dispatcher /\ UNCHANGED <<checkVars, sourceVars, loadVars, influxVars, csvVars>>

Spec == Init /\ [][Next]_vars

FairSpec ==
    \* the event loop runs the dispatcher task it was given
    Spec /\ WF_vars(dispatcher /\ UNCHANGED <<checkVars, sourceVars, loadVars, influxVars, csvVars>>)

\* one load fed through Load.process
LoadSpecInit ==
    CheckIdle /\ SourceIdle /\ DispatcherInit /\ LoadInit /\ InfluxIdle /\ CsvIdle

LoadNext ==
    \/ Tick /\ UNCHANGED <<checkVars, sourceVars, dispVars, influxVars, csvVars>>
    \/ Load_process /\ UNCHANGED <<checkVars, sourceVars, dispVars, influxVars, csvVars>>

LoadSpec == LoadSpecInit /\ [][LoadNext]_vars

\* one load driven through process, on and off
LoadOpsNext ==
    \/ LoadNext
    \/ Load_on /\ UNCHANGED <<checkVars, sourceVars, dispVars, influxVars, csvVars>>
    \/ Load_off /\ UNCHANGED <<checkVars, sourceVars, dispVars, influxVars, csvVars>>

LoadOpsSpec == LoadSpecInit /\ [][LoadOpsNext]_vars

\* the loads of the configuration fed through LoadManager.process
ManagerNext ==
    \/ Tick /\ UNCHANGED <<checkVars, sourceVars, dispVars, influxVars, csvVars>>
    \/ LoadManager_process
         /\ UNCHANGED <<checkVars, sourceVars, loadVars, influxVars, csvVars>>

ManagerSpec == LoadSpecInit /\ [][ManagerNext]_vars

\* check_msg applied to one frame
CheckSpecInit ==
    CheckInit /\ SourceIdle /\ DispatcherInit /\ LoadInit /\ InfluxIdle /\ CsvIdle

CheckNext ==
    CheckMsg /\ UNCHANGED <<sourceVars, dispVars, loadVars, influxVars, csvVars>>

CheckSpec == CheckSpecInit /\ [][CheckNext]_vars

\* the functions of the extractor, each applied to one input
ApplySpecInit ==
    ApplyInit /\ SourceIdle /\ DispatcherInit /\ LoadInit /\ InfluxIdle /\ CsvIdle

ApplyNext ==
    \/ Apply_convert_timestamp /\ UNCHANGED <<sourceVars, dispVars, loadVars, influxVars, csvVars>>
    \/ Apply_autoformat /\ UNCHANGED <<sourceVars, dispVars, loadVars, influxVars, csvVars>>
    \/ Apply_parse /\ UNCHANGED <<sourceVars, dispVars, loadVars, influxVars, csvVars>>
    \/ Apply_craft_json /\ UNCHANGED <<sourceVars, dispVars, loadVars, influxVars, csvVars>>

ApplySpec == ApplySpecInit /\ [][ApplyNext]_vars

\* DbInflux fed through write
InfluxSpecInit ==
    CheckIdle /\ SourceIdle /\ DispatcherInit /\ LoadInit /\ InfluxInit /\ CsvIdle

InfluxNext ==
    \/ SinkTick /\ UNCHANGED <<checkVars, sourceVars, dispVars, influxVars, csvVars>>
    \/ DbInflux_write /\ UNCHANGED <<checkVars, sourceVars, dispVars, loadVars, csvVars>>

InfluxSpec == InfluxSpecInit /\ [][InfluxNext]_vars

\* CSVWriter fed through write and close
CsvSpecInit ==
    CheckIdle /\ SourceIdle /\ DispatcherInit /\ LoadInit /\ InfluxIdle /\ CsvInit

CsvNext ==
    \/ SinkTick /\ UNCHANGED <<checkVars, sourceVars, dispVars, influxVars, csvVars>>
    \/ CSVWriter_write
         /\ UNCHANGED <<checkVars, sourceVars, dispVars, influxVars,
                        is_on, state_start_time, last_call, changes>>
    \/ CSVWriter_flush
         /\ UNCHANGED <<checkVars, sourceVars, dispVars, influxVars,
                        is_on, state_start_time, last_call, changes>>
    \/ CSVWriter_close
         /\ UNCHANGED <<checkVars, sourceVars, dispVars, influxVars,
                        is_on, state_start_time, last_call, changes>>

CsvSpec == CsvSpecInit /\ [][CsvNext]_vars

\* CSVWriter fed without end, beside the uploader
StreamWrite ==
    CSVWriter_write_next
        /\ UNCHANGED <<checkVars, sourceVars, dispVars, influxVars,
                       is_on, state_start_time, last_call, changes>>

StreamUpload ==
    csv_uploader /\ UNCHANGED <<checkVars, sourceVars, dispVars, loadVars, influxVars>>

StreamNext ==
    \/ SinkTick /\ UNCHANGED <<checkVars, sourceVars, dispVars, influxVars, csvVars>>
    \/ StreamWrite
    \/ StreamUpload

StreamSpec ==
    \* records keep arriving, and the uploader keeps being run
    /\ CsvSpecInit
    /\ [][StreamNext]_vars
    /\ WF_vars(StreamWrite)
    /\ WF_vars(StreamUpload)

----------------------------------------------------------------------------
(* Properties of the telegram sources.                                     *)

\* C1: on either source, every record on the queue comes from a frame for
\* which check_msg was called and returned True.
C1_OnlyValidatedFramesQueued ==
    \A i \in 1..Len(enqueued) :
        enqueued[i].checked = "True" /\ check_msg(enqueued[i].raw)

\* C9: in read_serial every enqueued record belongs to a frame opened by a
\* start marker, and no frame is enqueued more than once.
C9_NoFrameEnqueuedTwice ==
    source = "read_serial" =>
        /\ \A i \in 1..Len(enqueued) : enqueued[i].frame >= 1
        /\ \A i, j \in 1..Len(enqueued) :
               i # j => enqueued[i].frame # enqueued[j].frame

----------------------------------------------------------------------------
(* Properties of check_msg.                                                *)

LastBang(raw) ==
    \* 1-based position of the terminating "!", 0 when there is none
    IF \E p \in 1..Len(raw) : raw[p] = 33
    THEN CHOOSE p \in 1..Len(raw) :
             raw[p] = 33 /\ \A q \in (p + 1)..Len(raw) : raw[q] # 33
    ELSE 0

CrcMatches(raw) ==
    \* the text after the terminating "!" is hexadecimal and equals the CRC of
    \* the frame up to and including that "!"
    LET p       == LastBang(raw)
        trailer == Strip(SubSeq(raw, p + 1, Len(raw)))
    IN  /\ p > 0
        /\ trailer # <<>>
        /\ \A i \in 1..Len(trailer) : IsHexDigit(trailer[i])
        /\ DigitsValue(0, trailer) = Crc16Lha(SubSeq(raw, 1, p))

\* C10: check_msg returns True exactly when the trailer equals the computed
\* CRC, False for a frame without "!" or with a malformed trailer; a frame
\* sealed with its own CRC is valid and stops being valid when one byte of
\* its body is changed.
C10_CheckMsgIffCrcMatches ==
    cm_result # "pending" =>
        /\ cm_result = PyBool(CrcMatches(cm_raw))
        /\ cm_body.kind = "sealed" => cm_result = "True"
        /\ cm_body.kind = "altered" => cm_result = "False"

----------------------------------------------------------------------------
(* Properties of the dispatcher.                                           *)

Handed(sink) ==
    \* the records one sink was called with, in call order
    LET Of(c) == c[1] = sink
        calls == SelectSeq(sink_log, Of)
    IN  [i \in 1..Len(calls) |-> calls[i][2]]

HandedInOrder(i) ==
    \A k \in 1..Len(Sinks) :
        Len(Handed(Sinks[k])) >= i /\ Handed(Sinks[k])[i] = enqueued[i]

SinkRound(i) ==
    \* the calls for the i-th record: influx, csv_writer, load_manager, in a row
    /\ Len(sink_log) >= Len(Sinks) * i
    /\ \A k \in 1..Len(Sinks) :
           sink_log[Len(Sinks) * (i - 1) + k] = <<Sinks[k], enqueued[i]>>

ReachedAllSinks(i) ==
    \A k \in 1..Len(Sinks) :
        \E n \in 1..Len(sink_log) : sink_log[n] = <<Sinks[k], enqueued[i]>>

----------------------------------------------------------------------------
(* Properties of the load controller.                                      *)

Call == last_call[1]

SecondsInState ==
    \* whole seconds between the last state change before the call and the call
    (Call.at - Call.changes_before[Len(Call.changes_before)]) \div TicksPerSecond

HoldTimerPassed ==
    Call.changes_before # <<>> /\ SecondsInState > hold_timer

\* C2: a load that was OFF when Load.process was called is ON afterwards if
\* and only if injected >= max_power and it either never changed state or has
\* been in its state for more than hold_timer seconds; the consumed power has
\* no part in it.
C2_OffSwitchesOnIff ==
    (last_call # None /\ ~Call.was_on) =>
        (is_on <=> /\ Call.injected >= max_power
                   /\ (Call.changes_before = <<>> \/ HoldTimerPassed))

C2_Witness ==
    /\ last_call # None
    /\ ~Call.was_on /\ is_on
    /\ Call.changes_before # <<>>
    /\ Call.consumed > switch_off

\* C3: a load that was ON when Load.process was called is OFF afterwards if
\* and only if consumed > 100 W and it has been ON for more than hold_timer
\* seconds, whatever the injected power; one call changes the state at most
\* once.
C3_OnSwitchesOffIff ==
    last_call # None =>
        /\ Call.was_on =>
               (~is_on <=> (Call.consumed > 100 /\ HoldTimerPassed))
        /\ Len(changes) <= Len(Call.changes_before) + 1

C3_Witness ==
    /\ last_call # None
    /\ Call.was_on /\ ~is_on
    /\ Call.injected >= max_power

\* C4: two consecutive state changes of the load are more than hold_timer
\* seconds apart.
C4_NoToggleWithinHoldTimer ==
    \A i \in 2..Len(changes) :
        changes[i] - changes[i - 1] > hold_timer * TicksPerSecond

C4_Witness ==
    /\ Len(changes) >= 3
    /\ is_on

\* C23: after every call of Load.process the status entry of the load has
\* been published and the call has returned the state of the load, True
\* iff the load is ON.
C23_ProcessPublishesAndReturnsState ==
    last_call # None => Call.result = PyBool(is_on)

Transition == Len(changes) = Len(Call.changes_before) + 1

----------------------------------------------------------------------------
(* Properties of DbInflux.write.                                           *)

Holds(points, batch) == \E k \in 1..Len(batch) : batch[k] = points

SentBy(call) == IF call.sent = None THEN <<>> ELSE call.sent[1]

CloseTogether(i) ==
    \* calls i and i+1 were made within the upload interval of each other,
    \* each with a record that has payloads
    /\ influx_calls[i + 1].at - influx_calls[i].at < upload_interval * TicksPerSecond
    /\ craft_json(influx_calls[i].data).ok
    /\ craft_json(influx_calls[i + 1].data).ok

\* C11: with a non-zero upload interval, the payloads of two records written
\* within the interval of each other stay together: they are in the batch
\* together or they went out in the same network write, and no network
\* write carries one of them without the other.
C11_CloseWritesShareOneUpload ==
    upload_interval = UploadInterval =>
        \A i \in 1..(Len(influx_calls) - 1) :
            CloseTogether(i) =>
                LET p == craft_json(influx_calls[i].data).points
                    q == craft_json(influx_calls[i + 1].data).points
                IN  /\ \/ Holds(p, influx_batch) /\ Holds(q, influx_batch)
                       \/ \E j \in 1..Len(influx_calls) :
                              /\ Holds(p, SentBy(influx_calls[j]))
                              /\ Holds(q, SentBy(influx_calls[j]))
                    /\ \A j \in 1..Len(influx_calls) :
                           Holds(p, SentBy(influx_calls[j]))
                               <=> Holds(q, SentBy(influx_calls[j]))

\* C12: a write made less than upload_interval after the last successful
\* upload appends the payloads of its record to the batch and makes no
\* network write; a network write is made only when the interval has
\* elapsed and the batch is not empty.
C12_BuffersUntilIntervalElapsed ==
    \A i \in 1..Len(influx_calls) :
        LET c == influx_calls[i]
            elapsed == c.at - c.last_before
        IN  /\ (c.last_before > 0 /\ elapsed < upload_interval * TicksPerSecond)
                   => /\ c.outcome = "buffered"
                      /\ c.sent = None
                      /\ c.batch_after
                             = Append(c.batch_before, craft_json(c.data).points)
            /\ c.outcome \in {"uploaded", "write_raised"}
                   => /\ elapsed >= upload_interval * TicksPerSecond
                      /\ c.batch_before # <<>>

IsPrefix(s, t) == Len(s) <= Len(t) /\ SubSeq(t, 1, Len(s)) = s

RetriedBy(i, j) ==
    \* call j makes the first successful upload after the failed one of call i
    /\ i < j
    /\ influx_calls[i].outcome = "write_raised"
    /\ influx_calls[j].outcome = "uploaded"
    /\ \A k \in (i + 1)..(j - 1) : influx_calls[k].outcome # "uploaded"

\* C13: the batch is emptied and last_upload_time is set only by a network
\* write that succeeded; a write whose network write raises leaves both as
\* they were, and the next successful upload sends what was buffered then.
C13_BatchKeptUntilUploadSucceeds ==
    /\ \A i \in 1..Len(influx_calls) :
           LET c == influx_calls[i]
           IN  /\ c.outcome = "write_raised"
                      => /\ c.batch_after = c.batch_before
                         /\ c.last_after = c.last_before
               /\ (c.batch_before # <<>> /\ c.batch_after = <<>>)
                      => c.outcome = "uploaded" /\ c.sent = <<c.batch_before>>
               /\ c.last_after # c.last_before => c.outcome = "uploaded"
    /\ \A i, j \in 1..Len(influx_calls) :
           RetriedBy(i, j)
               => IsPrefix(influx_calls[i].batch_before, SentBy(influx_calls[j]))

C13_Witness ==
    \E i, j \in 1..Len(influx_calls) :
        RetriedBy(i, j) /\ influx_calls[i].batch_before # <<>>

----------------------------------------------------------------------------
(* Properties of CSVWriter.                                                *)

LastCsvCall == csv_calls[Len(csv_calls)]

Wrote(i) == csv_calls[i].op = "write" /\ csv_calls[i].outcome = "ok"

RotationAtTwo == max_lines = 2 /\ write_every = 1 /\ max_age = LongAge

OneFileOfTwoRowsOneOfOne ==
    /\ Named(TRUE) = {}
    /\ \E a, b \in Named(FALSE) :
           /\ a # b
           /\ Named(FALSE) = {a, b}
           /\ Len(files[a].rows) = 2
           /\ Len(files[b].rows) = 1

\* C14 as stated: with max_lines = 2 and every record flushed, once three
\* records have been written there is one promoted file of two rows, one
\* promoted file of one row, and no working-prefixed file.
C14_ThreeWritesLeaveTwoPromotedFiles ==
    (RotationAtTwo /\ Len(csv_calls) = 3 /\ \A i \in 1..3 : Wrote(i))
        => OneFileOfTwoRowsOneOfOne

\* C14 amended: with max_lines = 2 and every record flushed, once three
\* records have been written and the writer has been closed, the close has
\* raised nothing and there is one promoted file of two rows, one promoted
\* file of one row, and no working-prefixed file.
C14_ThreeWritesAndCloseLeaveTwoPromotedFiles ==
    (/\ RotationAtTwo
     /\ Len(csv_calls) = 4
     /\ \A i \in 1..3 : Wrote(i)
     /\ csv_calls[4].op = "close")
        => csv_calls[4].outcome = "ok" /\ OneFileOfTwoRowsOneOfOne

C14_Witness ==
    /\ RotationAtTwo
    /\ Len(csv_calls) = 4
    /\ \A i \in 1..3 : Wrote(i)
    /\ csv_calls[4].op = "close"
    /\ OneFileOfTwoRowsOneOfOne

\* C15: a call that starts writing rows (a write that reaches write_every,
\* or a forced flush) returns with an empty batch, whatever write_every,
\* max_lines and max_age are.
C15_FlushDrainsBatch ==
    (csv_calls # <<>> /\ LastCsvCall.flushed /\ LastCsvCall.op # "close")
        => csv_batch = <<>>

Stamps == {name.stamp : name \in DOMAIN files}

FileOf(stamp) == CHOOSE name \in DOMAIN files : name.stamp = stamp

RECURSIVE RowsFrom(_)
RowsFrom(stamps) ==
    \* the rows of the files with these stamps, oldest file first
    IF stamps = {} THEN <<>>
    ELSE LET first == CHOOSE s \in stamps : \A r \in stamps : s <= r
         IN  files[FileOf(first)].rows \o RowsFrom(stamps \ {first})

CallOf(row) ==
    \* the call that passed the record of this row
    CHOOSE i \in 1..Len(csv_calls) : csv_calls[i].left = <<row>>

\* C16: the rows of the CSV files, read in the order the files were created
\* and top to bottom, are in the order in which their records were passed
\* to write.
C16_RowsInArrivalOrder ==
    LET rows == RowsFrom(Stamps)
    IN  \A p, q \in 1..Len(rows) : p < q => CallOf(rows[p]) < CallOf(rows[q])

PromotedFilesAreFinished ==
    /\ \A name \in Named(FALSE) :
           /\ ~files[name].open
           /\ Len(files[name].rows) >= 1
           /\ Len(files[name].rows) <= max_lines
    /\ \A name \in Named(TRUE) :
           filehandler = <<name>> /\ files[name].open

PromotedFilesStay ==
    \A name \in Named(FALSE) : name \in DOMAIN files' /\ files'[name] = files[name]

\* C17: a file under a final name is closed, holds between one and
\* max_lines rows and never changes again; a working file exists only
\* while it is the open file of the writer, so one closed with no rows is
\* deleted and not promoted.
C17_PromotedFilesAreFinal ==
    []PromotedFilesAreFinished /\ [][PromotedFilesStay]_vars

C17_Witness ==
    \* one file was promoted with rows, and the file opened after it was
    \* closed without rows and is gone
    /\ Named(FALSE) # {}
    /\ Named(TRUE) = {}
    /\ csv_calls # <<>>
    /\ LastCsvCall.op = "close"
    /\ LastCsvCall.outcome = "ok"
    /\ lines_written = 0

\* C18: close(flush=True) raises nothing, and when it returns the batch is
\* empty, every record that was in the batch is a row of a file, no file is
\* open and no working-prefixed file is left.
C18_ForcedCloseWritesEverything ==
    (csv_calls # <<>> /\ LastCsvCall.op = "close" /\ LastCsvCall.flush)
        => /\ LastCsvCall.outcome = "ok"
           /\ csv_batch = <<>>
           /\ \A k \in 1..Len(LastCsvCall.batch_before) :
                  \E name \in DOMAIN files, r \in 1..MaxCalls :
                      /\ r <= Len(files[name].rows)
                      /\ files[name].rows[r] = LastCsvCall.batch_before[k]
           /\ filehandler = None
           /\ Named(TRUE) = {}

----------------------------------------------------------------------------
(* Properties of the decoded record.                                       *)

\* C19: every record put on the queue has the keys local_timestamp,
\* timestamp and gas_timestamp, whatever lines its frame had.
C19_RecordsCarryAllTimestamps ==
    \A i \in 1..Len(enqueued) :
        {"local_timestamp", "timestamp", "gas_timestamp"}
            \subseteq DOMAIN enqueued[i].data

\* C20: a sink leaves the record it is handed as it was: after
\* CSVWriter.write the caller's record has the keys and values it was
\* passed with.
C20_SinkLeavesRecordUnchanged ==
    \A i \in 1..Len(csv_calls) :
        csv_calls[i].op = "write" => csv_calls[i].left = csv_calls[i].passed

----------------------------------------------------------------------------
(* Properties of read_serial on bad input.                                 *)

MeterTimestamp(v) ==
    \* v is the text YYMMDDHHMMSS followed by S or W
    /\ v.type = "str"
    /\ Len(v.text) = 13
    /\ \A i \in 1..12 : IsDigit(v.text[i])
    /\ v.text[13] \in {83, 87}

\* C21: read_serial puts no record on the queue for a validated frame whose
\* electricity timestamp is missing, empty or malformed: every record it
\* has enqueued has a timestamp of twelve digits followed by S or W.
C21_BadTimestampNeverEnqueued ==
    source = "read_serial" =>
        \A i \in 1..Len(enqueued) :
            /\ "timestamp" \in DOMAIN enqueued[i].data
            /\ MeterTimestamp(enqueued[i].data["timestamp"])

LostFramesGiveNoRecord ==
    /\ \A i \in 1..Len(enqueued) : enqueued[i].frame \notin lost
    /\ lost # {} => source = "read_serial"

CompletesTelegram ==
    \* this step reads the end marker of the telegram in progress
    /\ source = "read_serial"
    /\ start_of_telegram_detected
    /\ ~start_of_telegram_detected'
    /\ telegram' # telegram

GoodTelegramEnqueued ==
    (CompletesTelegram /\ check_msg(telegram') /\ Extracted(telegram').ok)
        => /\ Len(enqueued') = Len(enqueued) + 1
           /\ enqueued'[Len(enqueued')].raw = telegram'
           /\ enqueued'[Len(enqueued')].frame = frame_no

----------------------------------------------------------------------------
(* Properties of the extractor's functions.                                *)

Applied(name) == fn = name /\ fn_out # <<>>

Offset(flag) ==
    IF flag = 83 THEN <<43, 48, 50, 58, 48, 48>>      \* S: +02:00
    ELSE <<43, 48, 49, 58, 48, 48>>                   \* W: +01:00

Iso8601(ts, offset) ==
    \* 20YY-MM-DDTHH:MM:SS and the offset, the digits those of ts
    <<50, 48>> \o SubSeq(ts, 1, 2) \o <<45>> \o SubSeq(ts, 3, 4) \o <<45>>
        \o SubSeq(ts, 5, 6) \o <<84>> \o SubSeq(ts, 7, 8) \o <<58>>
        \o SubSeq(ts, 9, 10) \o <<58>> \o SubSeq(ts, 11, 12) \o offset

ExampleTimestamp == <<50, 49, 49, 48, 50, 52, 49, 57, 53, 50, 51, 53, 83>>
    \* 211024195235S
ExampleIso == <<50, 48, 50, 49, 45, 49, 48, 45, 50, 52, 84, 49, 57, 58, 53, 50,
                58, 51, 53, 43, 48, 50, 58, 48, 48>>
    \* 2021-10-24T19:52:35+02:00

\* C24: convert_timestamp (ISO-8601 rendering) raises for the empty string,
\* and for YYMMDDHHMMSS followed by S or W it returns 20YY-MM-DDTHH:MM:SS
\* with the same digits and the offset +02:00 for S, +01:00 for W;
\* "211024195235S" gives 2021-10-24T19:52:35+02:00.
C24_TimestampToIso8601 ==
    Applied("convert_timestamp") =>
        LET ts  == fn_arg
            out == fn_out[1]
        IN  /\ ts = <<>> => ~out.ok
            /\ MeterTimestamp(Str(ts)) =>
                   out.ok /\ out.text = Iso8601(ts, Offset(ts[13]))
            /\ ts = ExampleTimestamp => out.text = ExampleIso

C24_Witness ==
    /\ Applied("convert_timestamp")
    /\ fn_arg = ExampleTimestamp
    /\ fn_out = <<[ok |-> TRUE, text |-> ExampleIso]>>

FrameLinesOf(frame) == SplitLines(Strip(frame), 1)

Hits(lines, k) ==
    \* the lines that start with the wire code of entry k of FIELDS
    {i \in 1..Len(lines) : StartsWith(lines[i], FIELDS[k][1])}

Last(S) == CHOOSE i \in S : \A j \in S : j <= i

\* C25: parse returns a record whose keys are local_timestamp and exactly
\* the keys of the FIELDS entries whose code starts some line of the frame;
\* each key holds the value of the last line that matches it.
C25_ParseYieldsExactlyMatchedKeys ==
    Applied("parse") =>
        LET lines == FrameLinesOf(fn_arg)
            msg   == fn_out[1]
        IN  /\ ~ParseRaises(msg)
            /\ DOMAIN msg = {"local_timestamp"}
                   \cup {FIELDS[k][2] : k \in {x \in 1..Len(FIELDS) : Hits(lines, x) # {}}}
            /\ \A k \in 1..Len(FIELDS) :
                   Hits(lines, k) # {} =>
                       msg[FIELDS[k][2]] =
                           autoformat(Slice(lines[Last(Hits(lines, k))],
                                            FIELDS[k][3], FIELDS[k][4]))

\* C26: autoformat never raises and returns an integer for a string of
\* digits, a float for digits-point-digits, the value itself for a number
\* and for every other string; applied to its result it returns the result.
C26_AutoformatClassifiesAndNeverRaises ==
    Applied("autoformat") =>
        LET v   == fn_arg
            out == fn_out[1]
        IN  /\ out.type \in {"int", "float", "str"}
            /\ (v.type = "str" /\ IsAllDigits(v.text)) =>
                   out = [type |-> "int", text |-> v.text]
            /\ (v.type = "str" /\ IsDecimalLiteral(v.text)) =>
                   out = [type |-> "float", text |-> v.text]
            /\ v.type \in {"int", "float"} => out = v
            /\ (v.type = "str" /\ ~IsAllDigits(v.text) /\ ~IsDecimalLiteral(v.text)) =>
                   out = v
            /\ autoformat_typed(out) = out

\* C27: craft_json returns three payloads electricity, gas and load; a field
\* that is neither a timestamp nor a gas field is in the electricity payload
\* only, a gas field that is no timestamp in the gas payload only, a
\* timestamp in none; the load payload has the one field load_on, 0 when
\* the record has no load_status.
C27_CraftJsonSplitsFields ==
    Applied("craft_json") =>
        LET data == fn_arg
            out  == fn_out[1]
            e    == out.points[1].fields
            g    == out.points[2].fields
            l    == out.points[3].fields
        IN  /\ out.ok
            /\ Len(out.points) = 3
            /\ <<out.points[1].measurement, out.points[2].measurement,
                 out.points[3].measurement>> = <<"electricity", "gas", "load">>
            /\ \A key \in DOMAIN data :
                   IF InKey("timestamp", key)
                   THEN key \notin (DOMAIN e) \cup (DOMAIN g) \cup (DOMAIN l)
                   ELSE IF InKey("gas", key)
                   THEN /\ key \in DOMAIN g /\ g[key] = data[key]
                        /\ key \notin (DOMAIN e) \cup (DOMAIN l)
                   ELSE /\ key \in DOMAIN e /\ e[key] = data[key]
                        /\ key \notin (DOMAIN g) \cup (DOMAIN l)
            /\ DOMAIN l = {"load_on"}
            /\ "load_status" \notin DOMAIN data =>
                   l["load_on"] = [type |-> "int", text |-> <<48>>]

----------------------------------------------------------------------------
(* Properties of the CSV file names and of the rotation.                   *)

WorkingNameIsFree ==
    \* no working file stands beside a promoted file of the same final name
    \A name \in DOMAIN files :
        name.wip => FinalName(name.stamp) \notin DOMAIN files

RowsKept ==
    \* a step keeps the rows of every file under the same stamp, and leaves
    \* a promoted file as it is
    \A name \in DOMAIN files :
        files[name].rows # <<>> =>
            \E after \in DOMAIN files' :
                /\ after.stamp = name.stamp
                /\ IsPrefix(files[name].rows, files'[after].rows)
                /\ ~name.wip => after = name /\ files'[after] = files[name]

\* C28: a working file never has a name whose final name is taken, and no
\* step overwrites, replaces or shortens a file that holds rows, also when
\* the next file is created in the second in which the last one was rotated.
C28_NameCollisionsLoseNoData == []WorkingNameIsFree /\ [][RowsKept]_vars

C28_Witness ==
    \* the open file was created after a sleep, beside the file promoted in
    \* the second of the call
    /\ csv_calls # <<>>
    /\ LastCsvCall.slept > 0
    /\ filehandler # None
    /\ FinalName(filehandler[1].stamp - 1) \in DOMAIN files
    /\ files[filehandler[1]].rows # <<>>

RowsOf(dir, stamp) ==
    \* the rows of the file with this stamp, none when there is no such file
    IF \E name \in DOMAIN dir : name.stamp = stamp
    THEN dir[CHOOSE name \in DOMAIN dir : name.stamp = stamp].rows
    ELSE <<>>

StampsOf(dir) == {name.stamp : name \in DOMAIN dir}

LimitReached(rows, t) ==
    \* the rotation condition for a file of `rows` rows at tick t, the file
    \* being the one opened last
    rows = max_lines \/ max_age * TicksPerSecond + create_time' <= t

RowWriteChecksLimits ==
    \* for every file that receives rows in the step
    \A stamp \in StampsOf(files') :
        LET before == RowsOf(files, stamp)
            after  == RowsOf(files', stamp)
        IN  Len(after) > Len(before) =>
                \* it was the open working file or is newly created
                /\ \/ stamp \notin StampsOf(files)
                   \/ filehandler = <<WipName(stamp)>> /\ files[WipName(stamp)].open
                \* it had not reached a limit before any row of the step
                /\ Len(before) < max_lines
                /\ \A n \in (Len(before) + 1)..(Len(after) - 1) : ~LimitReached(n, now')
                \* with the last row it has reached a limit: closed and promoted;
                \* otherwise it stays the open working file
                /\ IF LimitReached(Len(after), now')
                   THEN /\ filehandler' = None
                        /\ FinalName(stamp) \in DOMAIN files'
                        /\ WipName(stamp) \notin DOMAIN files'
                        /\ ~files'[FinalName(stamp)].open
                   ELSE filehandler' = <<WipName(stamp)>> \/ LastCsvCall'.op = "close"

OpenFileBelowLimits ==
    \* between two calls the open file is below max_lines
    filehandler # None => lines_written < max_lines

\* C30: after each row the writer checks both limits and promotes a file
\* that has reached one before it writes another row; a row is written
\* only to the open working file, which has reached no limit at its last
\* row, or to a newly created working file.
C30_RotationAfterEachRow == []OpenFileBelowLimits /\ [][RowWriteChecksLimits]_vars

C30_Witness ==
    \* a file rotated by its age, and a row in the working file opened after it
    /\ \A i \in 1..Len(csv_calls) : csv_calls[i].op # "close"
    /\ filehandler # None
    /\ files[filehandler[1]].rows # <<>>
    /\ \E name \in DOMAIN files :
           ~name.wip /\ Len(files[name].rows) \in 1..(max_lines - 1)

----------------------------------------------------------------------------
(* Progress of the queue.                                                  *)

Dequeued(i) ==
    \* the i-th record put on the queue has been taken off it
    Len(enqueued) - Len(msg_q) >= i

\* C32: every record the source puts on the queue is eventually taken off
\* it by the dispatcher, as long as the dispatcher task is scheduled.
C32_QueuedRecordsAreDequeued ==
    \A i \in 1..MaxLines : (Len(enqueued) >= i) ~> Dequeued(i)

----------------------------------------------------------------------------
(* Records kept by the sinks.                                              *)

\* C33: after every call of DbInflux.write whose network write did not
\* raise, the payloads of the record given to the call are in the batch or
\* went out in the network write of that call (stated for the records that
\* craft_json accepts).
C33_WriteKeepsItsRecord ==
    \A i \in 1..Len(influx_calls) :
        LET c == influx_calls[i]
            p == craft_json(c.data)
        IN  (p.ok /\ c.outcome # "write_raised") =>
                Holds(p.points, c.batch_after) \/ Holds(p.points, SentBy(c))

\* C34: as long as records keep arriving, a record in the batch of the CSV
\* writer eventually leaves it, which it does only by being written to a
\* file; for every write_every and max_lines.
C34_NoRecordStarvesInBatch ==
    \A n \in 1..MaxCalls : InBatch(n) ~> ~InBatch(n)

----------------------------------------------------------------------------
(* Properties of LoadManager.process.                                      *)

ManagerCall == manager_call[1]

\* C31: a call of LoadManager.process evaluates every load of the list
\* once, in order, each with the record's injected and consumed power in
\* watts (0 for an absent field), and a load that was not evaluated keeps
\* its state.
C31_EveryLoadEvaluatedOnce ==
    manager_call # None =>
        LET c == ManagerCall
        IN  /\ Len(c.evaluated) = NumLoads
            /\ \A k \in 1..Len(c.evaluated) :
                   c.evaluated[k] =
                       [load |-> k,
                        injected |-> Watts(c.data, "actual_total_injection"),
                        consumed |-> Watts(c.data, "actual_total_consumption")]
            /\ \A k \in 1..NumLoads :
                   (\A j \in 1..Len(c.evaluated) : c.evaluated[j].load # k)
                       => load_list[k] = c.loads_before[k]

----------------------------------------------------------------------------
(* Properties of a load driven through process, on and off.                *)

====
